---- MODULE Spec2Model ----
(***************************************************************************)
(* A model of the referral network (source/referral_network.py) and of the *)
(* expected-value referral simulation (source/simulation.py).              *)
(*                                                                         *)
(* User identifiers are the integers 1..MaxUsers; their numeric order      *)
(* stands for the lexicographic order of the Python strings, which is the  *)
(* only thing the code ever does with an identifier besides comparing it   *)
(* for equality and hashing it.                                            *)
(*                                                                         *)
(* Four specifications share the variables:                                *)
(*   Spec       add_user and add_referral on one ReferralNetwork;          *)
(*   SpecQuery  the same network observed through unique_reach_greedy and  *)
(*              flow_centrality_scores;                                    *)
(*   SpecSim    simulate and days_to_target;                               *)
(*   SpecBonus  min_bonus_for_target.                                      *)
(***************************************************************************)
EXTENDS Integers, Sequences, FiniteSets, TLC

VARIABLES
    users, adj, rev,   \* the fields of the ReferralNetwork instance
    call,              \* the pending call of the simulation functions
    result             \* what the last call returned or raised

vars == <<users, adj, rev, call, result>>

\* Number of distinct identifiers the callers may mention.
MaxUsers == 4
\* Largest m handed to unique_reach_greedy.
MaxM == 3
\* Probabilities are the multiples of 1/PGrid in [0, 1].
PGrid == 2
\* Largest number of days simulated (days, max_days).
MaxDays == 3
\* Largest initial_referrers and capacity.
MaxInit == 2
MaxCap == 2
\* Largest integer target (target_total, target_hires).
MaxTarget == 3
\* Largest max_multiplier; adoption_prob is defined on the bonuses
\* 0, 10, ..., 10 * MaxMult.
MaxMult == 4

Ids == 1..MaxUsers

\* ------------------------------------------------------------------------
\* Generic helpers standing for Python built-ins.

\* min of a non-empty set of integers
SetMin(S) == CHOOSE x \in S : \A y \in S : x <= y

\* sorted(S): the elements of a set in ascending order
RECURSIVE sorted(_)
sorted(S) ==
    IF S = {} THEN <<>>
    ELSE LET m == SetMin(S) IN <<m>> \o sorted(S \ {m})

\* All the orders in which Python may iterate over the set S.
RECURSIVE Orders(_)
Orders(S) ==
    IF S = {} THEN {<<>>}
    ELSE UNION {{<<x>> \o o : o \in Orders(S \ {x})} : x \in S}

Range(s) == {s[i] : i \in DOMAIN s}

\* ------------------------------------------------------------------------
\* ReferralNetwork.  An instance is the record self = [users, adj, rev]:
\* adj and rev are dictionaries, modelled as functions whose DOMAIN is the
\* set of keys present.

\* ReferralNetwork.__init__
NewNetwork == [users |-> {}, adj |-> <<>>, rev |-> <<>>]

\* self.adj.get(u, ()): does not create the key
adj_get(self, u) == IF u \in DOMAIN self.adj THEN self.adj[u] ELSE {}

\* add_user: users.add(user); `_ = self.adj[user]` creates the key with an
\* empty set when it is missing (defaultdict).
add_user(self, user) ==
    [self EXCEPT !.users = @ \cup {user},
                 !.adj = IF user \in DOMAIN @ THEN @ ELSE @ @@ (user :> {})]

_ensure_user(self, user) ==
    IF user \notin self.users THEN add_user(self, user) ELSE self

\* The while loop of _path_exists: q is the deque, visited the visited set.
\* The for loop returns True as soon as it meets target, whatever the order
\* in which it walks adj[u]; otherwise it appends every unvisited neighbour.
RECURSIVE path_loop(_, _, _, _)
path_loop(self, q, visited, target) ==
    IF q = <<>> THEN FALSE
    ELSE LET u == Head(q)
             nbrs == adj_get(self, u)
             new == nbrs \ visited
         IN IF target \in nbrs THEN TRUE
            ELSE path_loop(self, Tail(q) \o sorted(new), visited \cup new, target)

\* A cycle check that looks at the direct referrals of src only.
path_exists_direct(self, src, target) ==
    src = target \/ target \in adj_get(self, src)

_path_exists(self, src, target) ==
    IF src = target THEN TRUE
    ELSE path_loop(self, <<src>>, {src}, target)

\* The checks of add_referral without the unique-referrer check.
referral_error_no_unique(self, referrer, candidate) ==
    IF referrer = candidate THEN <<"self_referral">>
    ELSE IF _path_exists(self, candidate, referrer) THEN <<"cycle">>
    ELSE <<"ok">>

\* The checks of add_referral with the cycle check made before the
\* unique-referrer check.
referral_error_cycle_first(self, referrer, candidate) ==
    IF referrer = candidate THEN <<"self_referral">>
    ELSE IF _path_exists(self, candidate, referrer) THEN <<"cycle">>
    ELSE IF candidate \in DOMAIN self.rev
         THEN <<"already_referred", self.rev[candidate]>>
    ELSE <<"ok">>

\* The three checks of add_referral, in the order of the code; the value
\* is what the call raises: <<"ok">> when nothing is raised, otherwise the
\* kind of ValueError and, for a duplicate, the referrer its message names.
referral_error(self, referrer, candidate) ==
    IF referrer = candidate THEN <<"self_referral">>
    ELSE IF candidate \in DOMAIN self.rev
         THEN <<"already_referred", self.rev[candidate]>>
    ELSE IF _path_exists(self, candidate, referrer) THEN <<"cycle">>
    ELSE <<"ok">>

\* add_referral writing the forward edge before it runs its checks.
add_referral_edge_first(self, referrer, candidate) ==
    LET s1 == _ensure_user(self, referrer)
        s2 == _ensure_user(s1, candidate)
        s3 == [s2 EXCEPT !.adj[referrer] = @ \cup {candidate}]
        err == referral_error(s2, referrer, candidate)
    IN IF err # <<"ok">> THEN [self |-> s3, raised |-> err]
       ELSE [self |-> [s3 EXCEPT !.rev = (candidate :> referrer) @@ @],
             raised |-> err]

\* add_referral: the network after the call and what the call raised.
add_referral(self, referrer, candidate) ==
    LET s1 == _ensure_user(self, referrer)
        s2 == _ensure_user(s1, candidate)
        err == referral_error(s2, referrer, candidate)
    IN IF err # <<"ok">> THEN [self |-> s2, raised |-> err]
       ELSE [self |-> [s2 EXCEPT !.adj[referrer] = @ \cup {candidate},
                                 !.rev = (candidate :> referrer) @@ @],
             raised |-> err]

get_direct_referrals(self, user) == adj_get(self, user)

\* The while loop of reach_set.
RECURSIVE reach_loop(_, _, _)
reach_loop(self, q, visited) ==
    IF q = <<>> THEN visited
    ELSE LET new == adj_get(self, Head(q)) \ visited
         IN reach_loop(self, Tail(q) \o sorted(new), visited \cup new)

reach_set(self, user) == reach_loop(self, <<user>>, {}) \ {user}

total_referral_count(self, user) == Cardinality(reach_set(self, user))

\* sorted(seq, key=lambda x: x[1], reverse=True) on a list of (user, value)
\* pairs: Python's sort is stable, also with reverse=True, so pairs of equal
\* value keep the order they have in seq.  insert_desc puts x after every
\* pair of value >= its own.
RECURSIVE insert_desc(_, _)
insert_desc(sortedSeq, x) ==
    IF sortedSeq = <<>> THEN <<x>>
    ELSE IF Head(sortedSeq)[2] >= x[2]
         THEN <<Head(sortedSeq)>> \o insert_desc(Tail(sortedSeq), x)
         ELSE <<x>> \o sortedSeq

RECURSIVE sort_desc(_, _)
sort_desc(seq, n) ==
    IF n = 0 THEN <<>> ELSE insert_desc(sort_desc(seq, n - 1), seq[n])

\* seq[:k]
Take(seq, k) == SubSeq(seq, 1, IF k < Len(seq) THEN k ELSE Len(seq))

top_referrers_by_reach(self, k) ==
    LET nodes == sorted(self.users)
        scores == [i \in 1..Len(nodes) |->
                      <<nodes[i], total_referral_count(self, nodes[i])>>]
    IN Take(sort_desc(scores, Len(scores)), k)

_all_reach_sets(self) == [u \in self.users |-> reach_set(self, u)]

\* The marginal gain of rset, counting what is already covered again.
gain_total(rset, covered) == Cardinality(rset)

\* gain = len(rset - covered)
marginal_gain(rset, covered) == Cardinality(rset \ covered)

\* The inner for loop of unique_reach_greedy over reach.items(), walked in
\* the order `order`, from position i on.  best_user is <<>> for None and
\* <<u>> for the user u.
RECURSIVE best_loop(_, _, _, _, _, _, _)
best_loop(reach, order, i, selected, covered, best_user, best_gain) ==
    IF i > Len(order) THEN [best_user |-> best_user, best_gain |-> best_gain]
    ELSE LET u == order[i]
             gain == marginal_gain(reach[u], covered)
         IN IF u \in Range(selected)
            THEN best_loop(reach, order, i + 1, selected, covered, best_user, best_gain)
            ELSE IF gain > best_gain
                 THEN best_loop(reach, order, i + 1, selected, covered, <<u>>, gain)
                 ELSE best_loop(reach, order, i + 1, selected, covered, best_user, best_gain)

\* The outer loop, `for _ in range(m)`, with n rounds left.
RECURSIVE greedy_loop(_, _, _, _, _)
greedy_loop(reach, order, n, selected, covered) ==
    IF n <= 0 THEN <<selected, covered>>
    ELSE LET b == best_loop(reach, order, 1, selected, covered, <<>>, -1)
         IN IF b.best_user = <<>> \/ b.best_gain = 0
            THEN <<selected, covered>>
            ELSE greedy_loop(reach, order, n - 1,
                             Append(selected, b.best_user[1]),
                             covered \cup reach[b.best_user[1]])

\* unique_reach_greedy(m) when the dictionary built by _all_reach_sets is
\* iterated in the order `order`: Python iterates a dictionary in insertion
\* order, here the order of its iteration over the set self.users, which
\* the language leaves unspecified.
unique_reach_greedy(self, m, order) ==
    greedy_loop(_all_reach_sets(self), order, m, <<>>, {})

\* The outer loop over every iteration order at once: the set of the
\* (selected, covered) pairs the loop can end with.  `gain > best_gain` is
\* strict, so a round ends on the first user of maximal gain in iteration
\* order; the users picked earlier are skipped, so any user of maximal gain
\* can be that first one whatever the earlier rounds picked (the order
\* "picks first, in the order picked" yields exactly these picks).
RECURSIVE outcomes_loop(_, _, _, _)
outcomes_loop(reach, n, selected, covered) ==
    IF n <= 0 THEN {<<selected, covered>>}
    ELSE LET b == best_loop(reach, sorted(DOMAIN reach), 1, selected, covered, <<>>, -1)
             firsts == {u \in DOMAIN reach \ Range(selected) :
                          marginal_gain(reach[u], covered) = b.best_gain}
         IN IF b.best_user = <<>> \/ b.best_gain = 0
            THEN {<<selected, covered>>}
            ELSE UNION {outcomes_loop(reach, n - 1, Append(selected, u),
                                      covered \cup reach[u]) : u \in firsts}

\* What unique_reach_greedy(m) can return.
greedy_outcomes(self, m) == outcomes_loop(_all_reach_sets(self), m, <<>>, {})

\* The while loop of _bfs_distances_from; dist is the dictionary.
RECURSIVE dist_loop(_, _, _)
dist_loop(self, q, dist) ==
    IF q = <<>> THEN dist
    ELSE LET u == Head(q)
             new == adj_get(self, u) \ DOMAIN dist
         IN dist_loop(self, Tail(q) \o sorted(new),
                      dist @@ [v \in new |-> dist[u] + 1])

_bfs_distances_from(self, src) == dist_loop(self, <<src>>, (src :> 0))

\* The test of the innermost loop of flow_centrality_scores without the
\* `v == s or v == t` skip.
on_shortest_path_ends(all_dist, s, t, v) ==
    /\ v \in DOMAIN all_dist[s]
    /\ t \in DOMAIN all_dist[v]
    /\ all_dist[s][v] + all_dist[v][t] = all_dist[s][t]

\* The innermost loop body: whether (s, t) adds one to scores[v].
on_shortest_path(all_dist, s, t, v) ==
    /\ v # s /\ v # t
    /\ v \in DOMAIN all_dist[s]
    /\ t \in DOMAIN all_dist[v]
    /\ all_dist[s][v] + all_dist[v][t] = all_dist[s][t]

flow_centrality_scores(self) ==
    LET nodes == sorted(self.users)
        all_dist == [u \in self.users |-> _bfs_distances_from(self, u)]
        score(v) == Cardinality({st \in self.users \X self.users :
                                   /\ st[2] # st[1]
                                   /\ st[2] \in DOMAIN all_dist[st[1]]
                                   /\ on_shortest_path(all_dist, st[1], st[2], v)})
        items == [i \in 1..Len(nodes) |-> <<nodes[i], score(nodes[i])>>]
    IN sort_desc(items, Len(items))

\* ------------------------------------------------------------------------
\* simulation.py.  A float is modelled exactly, as the integer
\* Den * its value: a probability is p / PGrid for an integer p, and every
\* quantity computed within MaxDays days is a multiple of 1 / Den.  (For a
\* PGrid that is a power of two these values are binary fractions and the
\* IEEE arithmetic of the code is exact on them as well.)

Den == PGrid ^ MaxDays

\* float(n)
Float(n) == n * Den

\* p * x and (1 - p) * x, for the probability p / PGrid
times_p(p, x) == (p * x) \div PGrid

times_1_minus_p(p, x) == ((PGrid - p) * x) \div PGrid

\* sum(A[1:]) for the list A, a function on 0..capacity
RECURSIVE sum_from(_, _, _)
sum_from(A, c, capacity) ==
    IF c > capacity THEN 0 ELSE A[c] + sum_from(A, c + 1, capacity)

\* A = [0.0] * (capacity + 1); A[capacity] = float(initial_referrers)
initial_A(initial_referrers, capacity) ==
    [c \in 0..capacity |-> IF c = capacity THEN Float(initial_referrers) ELSE 0]

\* expected_new = p * active
expected_new_of(p, A, capacity) == times_p(p, sum_from(A, 1, capacity))

\* "compute next day's distribution": A_next[capacity] gets expected_new,
\* A_next[c] the fails of group c (c >= 1) and A_next[c - 1] the successes
\* of group c, for c in 1..capacity.
next_A(p, A, capacity) ==
    [c \in 0..capacity |->
        (IF c = capacity THEN expected_new_of(p, A, capacity) ELSE 0)
        + (IF c >= 1 THEN times_1_minus_p(p, A[c]) ELSE 0)
        + (IF c + 1 <= capacity THEN times_p(p, A[c + 1]) ELSE 0)]

\* The for loop of simulate, with n days left.
RECURSIVE simulate_loop(_, _, _, _, _, _)
simulate_loop(p, n, capacity, A, total_cumulative, cumulative) ==
    IF n <= 0 THEN cumulative
    ELSE LET total == total_cumulative + expected_new_of(p, A, capacity)
         IN simulate_loop(p, n - 1, capacity, next_A(p, A, capacity), total,
                          Append(cumulative, total))

\* simulate: raised tells whether the ValueError of the range check is
\* raised, cumulative is the list returned otherwise.
simulate(p, days, initial_referrers, capacity) ==
    IF p < 0 \/ p > PGrid
    THEN [raised |-> TRUE, cumulative |-> <<>>]
    ELSE [raised |-> FALSE,
          cumulative |-> simulate_loop(p, days, capacity,
                                       initial_A(initial_referrers, capacity), 0, <<>>)]

\* x < 1e-12 for the float x / Den with x >= 0, that is x * 10^12 < Den,
\* computed without leaving 32-bit integers.
below_1e_12(x) ==
    x = 0 \/ (((Den - 1) \div x) \div 1000000) >= 1000000

\* The comparison of days_to_target taken strictly.
target_exceeded(total_cumulative, target_total) == total_cumulative > target_total

\* total_cumulative >= target_total
target_met(total_cumulative, target_total) == total_cumulative >= target_total

\* The for loop of days_to_target from day `day` on.  An Optional[int] is
\* <<>> for None and <<d>> for the integer d.
RECURSIVE days_loop(_, _, _, _, _, _, _)
days_loop(p, target_total, capacity, max_days, day, A, total_cumulative) ==
    IF day > max_days THEN <<>>
    ELSE LET total == total_cumulative + expected_new_of(p, A, capacity)
             A_next == next_A(p, A, capacity)
         IN IF target_met(total, target_total) THEN <<day>>
            ELSE IF below_1e_12(sum_from(A_next, 1, capacity)) THEN <<>>
            ELSE days_loop(p, target_total, capacity, max_days, day + 1, A_next, total)

days_to_target(p, target_total, initial_referrers, capacity, max_days) ==
    days_loop(p, target_total, capacity, max_days, 1,
              initial_A(initial_referrers, capacity), 0)

\* adoption_prob is a function on the bonuses in dollars; its value is <<>>
\* when the callable raises and <<p>> when it returns p / PGrid.
Bonuses == {10 * i : i \in 0..MaxMult}

\* reaches(bonus): "yes" for True, "no" for False, otherwise the exception
\* that leaves it: that of adoption_prob, simulate's ValueError, or the
\* IndexError of cum[-1] on an empty list.
reaches(c, bonus) ==
    LET a == c.adoption_prob[bonus]
    IN IF a = <<>> THEN "adoption_prob"
       ELSE IF a[1] <= 0 THEN "no"
       ELSE LET cum == simulate(a[1], c.days, c.initial_referrers, c.capacity)
            IN IF cum.raised THEN "ValueError"
               ELSE IF cum.cumulative = <<>> THEN "IndexError"
               ELSE IF cum.cumulative[Len(cum.cumulative)] >= Float(c.target_hires)
                    THEN "yes" ELSE "no"

Returns(value) == [raised |-> "none", value |-> value]

Raises(exception) == [raised |-> exception, value |-> <<>>]

\* "find an upper bound by doubling": the value is hi when the loop is
\* left, or <<"return">> when the except clause returns None.
RECURSIVE doubling_loop(_, _)
doubling_loop(c, hi) ==
    IF ~(hi <= c.max_multiplier * 10) THEN <<"exit", hi>>
    ELSE LET r == reaches(c, hi)
         IN IF r = "yes" THEN <<"exit", hi>>
            ELSE IF r = "no" THEN doubling_loop(c, hi * 2)
            ELSE <<"return">>

\* "binary search on multiples of 10"
RECURSIVE search_loop(_, _, _)
search_loop(c, lo_m, hi_m) ==
    IF ~(lo_m < hi_m) THEN Returns(<<lo_m * 10>>)
    ELSE LET mid_m == (lo_m + hi_m) \div 2
             r == reaches(c, mid_m * 10)
         IN IF r = "yes" THEN search_loop(c, lo_m, mid_m)
            ELSE IF r = "no" THEN search_loop(c, mid_m + 1, hi_m)
            ELSE Raises(r)

\* min_bonus_for_target on the arguments c.
min_bonus_for_target(c) ==
    LET r0 == reaches(c, 0)
        up == doubling_loop(c, 10)
    IN IF r0 = "yes" THEN Returns(<<0>>)
       ELSE IF r0 # "no" THEN Raises(r0)
       ELSE IF up = <<"return">> THEN Returns(<<>>)
       ELSE IF up[2] > c.max_multiplier * 10 THEN Returns(<<>>)
       ELSE search_loop(c, 0 \div 10, up[2] \div 10)

\* ------------------------------------------------------------------------
\* The state machine of one ReferralNetwork instance.

Self == [users |-> users, adj |-> adj, rev |-> rev]

Init ==
    /\ users = NewNetwork.users
    /\ adj = NewNetwork.adj
    /\ rev = NewNetwork.rev
    /\ call = [op |-> "none"]
    /\ result = [op |-> "init"]

\* The fields of the instance after a call.
Update(self) ==
    /\ users' = self.users
    /\ adj' = self.adj
    /\ rev' = self.rev
    /\ UNCHANGED call

\* Spec: the mutating operations; result records the last call and what
\* it raised.
AddUser(user) ==
    /\ Update(add_user(Self, user))
    /\ result' = [op |-> "add_user", user |-> user]

AddReferral(referrer, candidate) ==
    LET r == add_referral(Self, referrer, candidate)
    IN /\ Update(r.self)
       /\ result' = [op |-> "add_referral", referrer |-> referrer,
                     candidate |-> candidate, raised |-> r.raised]

Next ==
    \/ \E u \in Ids : AddUser(u)
    \/ \E r, c \in Ids : AddReferral(r, c)

Spec == Init /\ [][Next]_vars

\* SpecQuery: the same network, built by the same operations, observed
\* through the influence metrics; result records the last query's output
\* only.
Register(user) ==
    /\ Update(add_user(Self, user))
    /\ result' = [op |-> "update"]

Refer(referrer, candidate) ==
    /\ Update(add_referral(Self, referrer, candidate).self)
    /\ result' = [op |-> "update"]

\* The read-only queries leave the network as it is.
UniqueReachGreedy(m) ==
    /\ \E out \in greedy_outcomes(Self, m) :
          result' = [op |-> "unique_reach_greedy", m |-> m,
                     selected |-> out[1], covered |-> out[2]]
    /\ UNCHANGED <<users, adj, rev, call>>

FlowCentralityScores ==
    /\ result' = [op |-> "flow_centrality_scores",
                  scores |-> flow_centrality_scores(Self)]
    /\ UNCHANGED <<users, adj, rev, call>>

NextQuery ==
    \/ \E u \in Ids : Register(u)
    \/ \E r, c \in Ids : Refer(r, c)
    \/ \E m \in 0..MaxM : UniqueReachGreedy(m)
    \/ FlowCentralityScores

SpecQuery == Init /\ [][NextQuery]_vars

\* The outcomes the query action draws from are those of the loop run under
\* every iteration order of the users.
GreedyOutcomesAreOrders ==
    \A m \in 0..MaxM :
        greedy_outcomes(Self, m) =
            {unique_reach_greedy(Self, m, o) : o \in Orders(users)}

\* ------------------------------------------------------------------------
\* SpecSim: a caller of simulate and days_to_target.  The arguments are
\* drawn at the start; the caller may run simulate and then, or at once,
\* days_to_target with the same p, initial_referrers and capacity, for an
\* integer target or for one of the totals simulate has just returned.

NoNetwork ==
    /\ users = NewNetwork.users
    /\ adj = NewNetwork.adj
    /\ rev = NewNetwork.rev

SimCalls ==
    [op : {"simulate"},
     p : (0 - 1)..(PGrid + 1),
     days : 0..MaxDays,
     initial_referrers : 0..MaxInit,
     capacity : 0..MaxCap]

InitSim ==
    /\ NoNetwork
    /\ call \in SimCalls
    /\ result = [op |-> "init"]

Simulate ==
    /\ call.op = "simulate"
    /\ result.op = "init"
    /\ result' = [op |-> "simulate",
                  out |-> simulate(call.p, call.days, call.initial_referrers,
                                   call.capacity)]
    /\ UNCHANGED <<users, adj, rev, call>>

\* The targets the caller may ask for in the current state.
Targets ==
    {Float(t) : t \in 0..MaxTarget}
    \cup (IF result.op = "simulate" THEN Range(result.out.cumulative) ELSE {})

DaysToTarget(target_total, max_days) ==
    /\ call.op = "simulate"
    /\ call.p \in 0..PGrid
    /\ result.op \in {"init", "simulate"}
    /\ result' = [op |-> "days_to_target",
                  target_total |-> target_total,
                  max_days |-> max_days,
                  day |-> days_to_target(call.p, target_total,
                                         call.initial_referrers, call.capacity,
                                         max_days)]
    /\ UNCHANGED <<users, adj, rev, call>>

NextSim ==
    \/ Simulate
    \/ \E t \in Targets : \E max_days \in 0..MaxDays : DaysToTarget(t, max_days)

SpecSim == InitSim /\ [][NextSim]_vars

\* ------------------------------------------------------------------------
\* SpecBonus: one call of min_bonus_for_target.

PValues == {<<>>} \cup {<<p>> : p \in 0..PGrid}

\* adoption_prob returns wherever it is called and is monotonic
\* non-decreasing.
Monotonic(f) ==
    /\ \A b \in DOMAIN f : f[b] # <<>>
    /\ \A b1, b2 \in DOMAIN f : (b1 <= b2) => (f[b1][1] <= f[b2][1])

\* The adoption_prob functions handed in: monotonic non-decreasing where
\* they return, and raising at one bonus level at most.
AdoptionProbs ==
    {f \in [Bonuses -> PValues] :
        /\ Cardinality({b \in Bonuses : f[b] = <<>>}) <= 1
        /\ \A b1, b2 \in Bonuses :
              (f[b1] # <<>> /\ f[b2] # <<>> /\ b1 <= b2) => f[b1][1] <= f[b2][1]}

BonusCalls ==
    [op : {"min_bonus_for_target"},
     days : 0..MaxDays,
     target_hires : 0..MaxTarget,
     adoption_prob : AdoptionProbs,
     initial_referrers : 1..MaxInit,
     capacity : 1..MaxCap,
     max_multiplier : 1..MaxMult]

InitBonus ==
    /\ NoNetwork
    /\ call \in BonusCalls
    /\ result = [op |-> "init"]

MinBonusForTarget ==
    /\ call.op = "min_bonus_for_target"
    /\ result.op = "init"
    /\ result' = [op |-> "min_bonus_for_target", out |-> min_bonus_for_target(call)]
    /\ UNCHANGED <<users, adj, rev, call>>

NextBonus == MinBonusForTarget

SpecBonus == InitBonus /\ [][NextBonus]_vars

\* ------------------------------------------------------------------------
\* Properties of the network.

\* The users reachable from u by one or more referral edges, as the least
\* set closed under the edge relation.
RECURSIVE Closure(_)
Closure(S) ==
    LET T == S \cup UNION {adj_get(Self, v) : v \in S}
    IN IF T = S THEN S ELSE Closure(T)

Descendants(u) == Closure(adj_get(Self, u))

Ancestors(u) == {s \in Ids : u \in Descendants(s)}

NoCycle == \A u \in Ids : u \notin Descendants(u)

EdgesUnchanged == \A u \in Ids : adj_get(Self, u)' = adj_get(Self, u)

\* The step is the call add_referral(a, b).
IsReferral(a, b) ==
    /\ result'.op = "add_referral"
    /\ result'.referrer = a
    /\ result'.candidate = b

CycleRejected ==
    \A a, b \in Ids :
        (/\ IsReferral(a, b)
         /\ a # b
         /\ b \notin DOMAIN rev
         /\ a \in Descendants(b))
        => /\ result'.raised = <<"cycle">>
           /\ EdgesUnchanged
           /\ rev' = rev

\* C1: in every reachable state the referral edges contain no directed
\* cycle, and add_referral(a, b) with a # b, b without a referrer and a
\* reachable from b raises the cycle error and adds no edge.
C1_Acyclic == []NoCycle /\ [][CycleRejected]_vars

\* A call that would have closed a cycle of length three or more was
\* rejected.
C1_Witness ==
    /\ result.op = "add_referral"
    /\ result.raised = <<"cycle">>
    /\ result.referrer \in Descendants(result.candidate)
    /\ result.referrer \notin adj_get(Self, result.candidate)

UniqueReferrer ==
    \A c \in Ids :
        Cardinality({r \in Ids : c \in get_direct_referrals(Self, r)}) <= 1

RevIsInverse ==
    \A r, c \in Ids :
        (c \in DOMAIN rev /\ rev[c] = r) <=> c \in adj_get(Self, r)

DuplicateRejected ==
    \A r, c \in Ids :
        (IsReferral(r, c) /\ c \in DOMAIN rev)
        => /\ result'.raised # <<"ok">>
           /\ c \in DOMAIN rev'
           /\ rev'[c] = rev[c]

\* C2: every candidate is in the direct-referral set of at most one
\* referrer, rev is the exact inverse of adj, and add_referral(r, c) for a
\* c that already has a referrer fails and leaves that referrer in place.
C2_UniqueReferrer ==
    [](UniqueReferrer /\ RevIsInverse) /\ [][DuplicateRejected]_vars

\* A second referrer was refused for a candidate that keeps its first one.
C2_Witness ==
    /\ result.op = "add_referral"
    /\ result.raised[1] = "already_referred"
    /\ rev[result.candidate] # result.referrer

Failed == result'.op = "add_referral" /\ result'.raised # <<"ok">>

\* The instance after the step.
SelfNext == [users |-> users', adj |-> adj', rev |-> rev']

\* C3: a failed add_referral leaves the set of known users, and with it
\* the users listed by top_referrers_by_reach and flow_centrality_scores,
\* exactly as before the call.
C3_UsersAtomic ==
    [][Failed =>
        /\ users' = users
        /\ top_referrers_by_reach(SelfNext, MaxUsers) = top_referrers_by_reach(Self, MaxUsers)
        /\ flow_centrality_scores(SelfNext) = flow_centrality_scores(Self)]_vars

QueriesUnchanged ==
    \A after \in {SelfNext} : \A u \in Ids :
        /\ get_direct_referrals(after, u) = get_direct_referrals(Self, u)
        /\ reach_set(after, u) = reach_set(Self, u)

\* C4: add_referral(a, a) always raises the self-referral error, and after
\* any failed add_referral get_direct_referrals(u) and reach_set(u) return
\* for every user u what they returned before the call.
C4_FailureKeepsEdges ==
    [][/\ \A a \in Ids : IsReferral(a, a) => result'.raised = <<"self_referral">>
       /\ Failed => QueriesUnchanged]_vars

\* A self-referral was refused for a user that has referrals.
C4_Witness ==
    /\ result.op = "add_referral"
    /\ result.raised = <<"self_referral">>
    /\ reach_set(Self, result.referrer) # {}

\* What the first failing check, in the order self-referral, duplicate
\* referrer, cycle, reports for add_referral(r, c) in the current state.
FirstFailure(r, c) ==
    IF r = c THEN <<"self_referral">>
    ELSE IF c \in DOMAIN rev THEN <<"already_referred", rev[c]>>
    ELSE IF r \in Descendants(c) THEN <<"cycle">>
    ELSE <<"ok">>

\* C5: add_referral reports the first check that fails in the order
\* self-referral, duplicate referrer, cycle: add_referral(a, a) reports the
\* self-referral error even when a has a referrer, and add_referral(r, c)
\* with c referred and r reachable from c reports the duplicate-referrer
\* error naming c's referrer.
C5_CheckOrder ==
    [][\A r, c \in Ids : IsReferral(r, c) => result'.raised = FirstFailure(r, c)]_vars

\* The duplicate-referrer error was reported for a call that would also
\* have closed a cycle.
C5_Witness ==
    /\ result.op = "add_referral"
    /\ result.raised[1] = "already_referred"
    /\ result.referrer \in Descendants(result.candidate)

\* The marginal gain of u over the first i - 1 picks of sel.
CoveredBefore(sel, i) == UNION {reach_set(Self, sel[j]) : j \in 1..(i - 1)}

GainAt(sel, i, u) == Cardinality(reach_set(Self, u) \ CoveredBefore(sel, i))

GreedyCorrect(m, sel, cov) ==
    /\ Len(sel) <= m
    /\ \A i, j \in 1..Len(sel) : i # j => sel[i] # sel[j]
    /\ Range(sel) \subseteq users
    /\ cov = UNION {reach_set(Self, u) : u \in Range(sel)}
    /\ \A i \in 1..Len(sel) :
          /\ GainAt(sel, i, sel[i]) > 0
          /\ \A u \in users \ {sel[j] : j \in 1..(i - 1)} :
                GainAt(sel, i, u) <= GainAt(sel, i, sel[i])
    /\ Len(sel) < m =>
          \A u \in users \ Range(sel) : reach_set(Self, u) \subseteq cov

\* C9: unique_reach_greedy(m) returns at most m distinct users and the
\* union of their reach sets; each selected user had, when picked, the
\* largest marginal gain among the users not yet selected, and a positive
\* one; the selection stops short of m only when no unselected user has a
\* positive marginal gain left.
C9_Greedy ==
    result.op = "unique_reach_greedy"
        => GreedyCorrect(result.m, result.selected, result.covered)

\* Two users were selected, the second for what the first left uncovered,
\* and the selection stopped before the third round.
C9_Witness ==
    /\ result.op = "unique_reach_greedy"
    /\ result.m = 3
    /\ Len(result.selected) = 2

PositionOf(scores, v) == (CHOOSE i \in 1..Len(scores) : scores[i][1] = v)

IsChain(a, b, c) ==
    /\ users = {a, b, c}
    /\ a # b /\ b # c /\ a # c
    /\ adj_get(Self, a) = {b}
    /\ adj_get(Self, b) = {c}
    /\ adj_get(Self, c) = {}

FlowCorrect(scores) ==
    /\ Len(scores) = Cardinality(users)
    /\ {scores[i][1] : i \in 1..Len(scores)} = users
    /\ \A i \in 1..Len(scores) :
          LET v == scores[i][1]
          IN /\ scores[i][2] = Cardinality(Ancestors(v)) * Cardinality(Descendants(v))
             /\ (v \notin DOMAIN rev \/ adj_get(Self, v) = {}) => scores[i][2] = 0
    /\ \A a, b, c \in Ids :
          IsChain(a, b, c) =>
              /\ PositionOf(scores, b) < PositionOf(scores, a)
              /\ PositionOf(scores, b) < PositionOf(scores, c)
              /\ scores[PositionOf(scores, b)][2] > scores[PositionOf(scores, a)][2]
              /\ scores[PositionOf(scores, b)][2] > scores[PositionOf(scores, c)][2]

\* C10: flow_centrality_scores gives each user v the score (number of
\* users that can reach v) times (number of users reachable from v), so 0
\* to every user without a referrer or without referrals, and in a chain
\* A -> B -> C it lists B first with a strictly larger score than A and C.
C10_FlowCentrality ==
    result.op = "flow_centrality_scores" => FlowCorrect(result.scores)

\* The scores of a chain of three users were computed.
C10_Witness ==
    /\ result.op = "flow_centrality_scores"
    /\ \E a, b, c \in Ids : IsChain(a, b, c)

\* ------------------------------------------------------------------------
\* Properties of the simulation.

\* The cumulative total simulate reports at the end of day d.
TotalAtDay(d) ==
    simulate(call.p, d, call.initial_referrers, call.capacity).cumulative[d]

DaysAgree(target_total, max_days, day) ==
    LET hits == {d \in 1..max_days : TotalAtDay(d) >= target_total}
    IN /\ day = (IF hits = {} THEN <<>> ELSE <<SetMin(hits)>>)
       /\ \A days \in 1..max_days :
             target_total = TotalAtDay(days)
             => /\ day # <<>>
                /\ day[1] <= days
                /\ TotalAtDay(day[1]) = target_total

\* C7: days_to_target returns the least day d in 1..max_days at which the
\* cumulative total of simulate reaches the target, and None when there is
\* none; for the target T = simulate(p, days)[-1] with max_days >= days it
\* returns a day d <= days whose cumulative total is T.
C7_DaysAgree ==
    result.op = "days_to_target"
        => DaysAgree(result.target_total, result.max_days, result.day)

\* days_to_target was asked for the last total of a simulation of two or
\* more days with a growing total, and answered with that last day.
C7_Witness ==
    /\ result.op = "days_to_target"
    /\ call.days >= 2
    /\ call.days <= result.max_days
    /\ result.target_total = TotalAtDay(call.days)
    /\ result.day = <<call.days>>

\* Whether the last element of simulate(adoption_prob(bonus), days, ...) is
\* at least target_hires.
Meets(c, bonus) ==
    LET cum == simulate(c.adoption_prob[bonus][1], c.days, c.initial_referrers,
                        c.capacity).cumulative
    IN cum[Len(cum)] >= Float(c.target_hires)

MinimalBonus(c, out) ==
    /\ out.raised = "none"
    /\ out.value # <<>> =>
          /\ out.value[1] \in Bonuses
          /\ Meets(c, out.value[1])
          /\ \A b \in Bonuses : b < out.value[1] => ~Meets(c, b)
    /\ Meets(c, 0) => out.value = <<0>>

\* C6: for a monotonic non-decreasing adoption_prob with values in [0, 1]
\* and days >= 1, a bonus returned by min_bonus_for_target is a
\* non-negative multiple of 10 that meets the target while no smaller
\* multiple of 10 does, and 0 is returned whenever bonus 0 meets the target.
C6_MinimalBonus ==
    (/\ result.op = "min_bonus_for_target"
     /\ call.days >= 1
     /\ Monotonic(call.adoption_prob))
    => MinimalBonus(call, result.out)

\* The same for the targets of one hire or more, where the shortcut of
\* reaches for p <= 0 agrees with the comparison of the totals.
MinimalBonusForPositiveTarget ==
    (/\ result.op = "min_bonus_for_target"
     /\ call.days >= 1
     /\ call.target_hires >= 1
     /\ Monotonic(call.adoption_prob))
    => MinimalBonus(call, result.out)

\* C8: min_bonus_for_target never lets a failure of adoption_prob reach
\* its caller: it returns a bonus or None.
C8_FailureAbsorbed ==
    result.op = "min_bonus_for_target" => result.out.raised # "adoption_prob"

\* A bonus found by the binary search, below the bound the doubling found.
MinimalBonusFound ==
    /\ result.op = "min_bonus_for_target"
    /\ Monotonic(call.adoption_prob)
    /\ call.target_hires >= 1
    /\ result.out.value = <<30>>

====
